---- MODULE Spec2Model ----
(***************************************************************************)
(* Model of the UsersTable dashboard component                             *)
(* (app/dashboard/src/components/users-table/users-table.tsx).             *)
(*                                                                         *)
(* JavaScript strings are TLA+ strings ("-" + column is "-" \o column,     *)
(* value.length is Len(value)).  A JavaScript value that is either a       *)
(* string or undefined is a sequence of at most one string: undefined is   *)
(* the empty sequence and the string s is <<s>>, so that undefined differs *)
(* from every string, the empty string included.                           *)
(*                                                                         *)
(* One step of the model is one UI event run to completion: the handler,   *)
(* the store update it requests, the re-render the store update causes     *)
(* and the effect of that render.                                          *)
(***************************************************************************)
EXTENDS Integers, Sequences, FiniteSets, TLC

\* Bound on the number of filter replacements explored after mount.
MaxUpdates == 3

\* Column names the column builder passes to handleSort.
Columns == {"created_at", "username"}

\* Raw values the status control passes to handleStatusFilter.
Values == {"", "0", "1", "active"}

\* Search texts the filter bar may set.
Searches == {"", "bob"}

undefined == <<>>

Str(s) == <<s>>

VARIABLES
  filters,       \* store: the filters object (sort, status, search)
  filtersRef,    \* store: identity of the filters object
  users,         \* store: id of the refetch whose result `users` holds, 0 if none
  pending,       \* store: ids of the refetchUsers calls that are unresolved
  rejected,      \* store: ids of the refetchUsers calls that failed
  mounted,       \* component: has rendered once
  closure,       \* component: the `filters` captured by the last render
  deps,          \* component: the [filters] dependency of the last render
  refetchCalls,  \* number of refetchUsers calls the component has made
  emitted,       \* number of onFilterChange calls the component has made
  replaced,      \* number of times the store replaced the filters object
  last,          \* the last step: operation, argument, request, state before
  streak,        \* consecutive handleSort calls on one column
  defaultRun,    \* sort started as "-created_at" and no other column was sorted
  sorted         \* handleSort has been invoked

vars == <<filters, filtersRef, users, pending, rejected, mounted, closure,
          deps, refetchCalls, emitted, replaced, last, streak, defaultRun,
          sorted>>

NoRequest == [k \in {} |-> undefined]

Negated(column) == "-" \o column

\* The sort descriptors of the data model: a column name, bare or negated once.
SortForms == {Str(c) : c \in Columns} \cup {Str(Negated(c)) : c \in Columns}

----------------------------------------------------------------------------
(* The handlers' computations.                                             *)

newSortToggle(sort, column) ==
  IF sort = Str(column) THEN Negated(column) ELSE column

newSortAscendingReset(sort, column) ==
  IF sort = Str(column)
    THEN Negated(column)
    ELSE IF sort = Str(Negated(column)) THEN "created_at" ELSE column

newSortDoubleNegation(sort, column) ==
  IF sort = Str(column)
    THEN Negated(column)
    ELSE IF sort = Str(Negated(column)) THEN Negated(Negated(column)) ELSE column

newSortResetOtherColumns(sort, column) ==
  IF sort = Str(column)
    THEN Negated(column)
    ELSE IF sort = Str(Negated(column)) /\ column # "created_at"
           THEN "-created_at"
           ELSE column

\* handleSort, lines 25-33: the next sort descriptor.
newSort(sort, column) ==
  IF sort = Str(column)
    THEN Negated(column)
    ELSE IF sort = Str(Negated(column)) THEN "-created_at" ELSE column

\* handleSort, line 35: the argument of onFilterChange.
sortRequest(sort, column) == [sort |-> Str(newSort(sort, column))]

\* handleStatusFilter, line 39.
newValue(value) == IF value = "0" THEN "" ELSE value

statusRequestPassThrough(value) == [status |-> Str(newValue(value))]

statusRequestWithSort(value) ==
  [status |-> IF Len(value) > 0 THEN Str(newValue(value)) ELSE undefined,
   sort |-> Str("-created_at")]

\* handleStatusFilter, lines 41-43: the argument of onFilterChange.
statusRequest(value) ==
  [status |-> IF Len(value) > 0 THEN Str(newValue(value)) ELSE undefined]

----------------------------------------------------------------------------
(* The store and the rendering.                                            *)

\* onFilterChange of the store: the given fields are merged into the filters.
Merge(f, partial) ==
  [k \in DOMAIN f \cup DOMAIN partial |->
     IF k \in DOMAIN partial THEN partial[k] ELSE f[k]]

effectRunsEveryRender(prevDeps, nextDeps) == TRUE

effectRunsAfterMountOnly(prevDeps, nextDeps) ==
  prevDeps # 0 /\ prevDeps # nextDeps

\* useEffect(..., [filters]), lines 20-22: the effect runs after the first
\* render and after every render whose filters object is not the previous one.
effectRuns(prevDeps, nextDeps) == prevDeps # nextDeps

refetchIssuedWhenIdle(outstanding) == outstanding = {}

\* Line 21: the effect calls refetchUsers unconditionally.
refetchIssued(outstanding) == TRUE

\* A render of the component with the store's filters object f of identity r,
\* followed by its effect; outstanding are the refetches unresolved so far.
Render(f, r, outstanding) ==
  /\ closure' = f
  /\ deps' = r
  /\ IF effectRuns(deps, r) /\ refetchIssued(outstanding)
       THEN /\ refetchCalls' = refetchCalls + 1
            /\ pending' = outstanding \cup {refetchCalls + 1}
       ELSE /\ refetchCalls' = refetchCalls
            /\ pending' = outstanding

\* The store replaces the filters object by the merge of partial, and the
\* component re-renders.
onFilterChange(partial) ==
  /\ filters' = Merge(filters, partial)
  /\ filtersRef' = filtersRef + 1
  /\ replaced' = replaced + 1
  /\ Render(Merge(filters, partial), filtersRef + 1, pending)

Before(op, arg, request) ==
  [op |-> op, arg |-> arg, request |-> request, filters |-> filters,
   users |-> users, refetchCalls |-> refetchCalls, emitted |-> emitted,
   pending |-> pending]

IsDefault(f) == f.sort = Str("-created_at")

----------------------------------------------------------------------------
(* Initial state: the store exists with some filters, nothing is rendered. *)

Init ==
  /\ filters \in [sort : SortForms \cup {undefined},
                  status : {undefined, Str("1")},
                  search : {undefined}]
  /\ filtersRef = 1
  /\ users = 0
  /\ pending = {}
  /\ rejected = {}
  /\ mounted = FALSE
  /\ closure = filters
  /\ deps = 0
  /\ refetchCalls = 0
  /\ emitted = 0
  /\ replaced = 0
  /\ last = Before("init", "", NoRequest)
  /\ streak = [column |-> "", n |-> 0]
  /\ defaultRun = IsDefault(filters)
  /\ sorted = FALSE

\* First render of the component.
Mount ==
  /\ ~mounted
  /\ mounted' = TRUE
  /\ Render(filters, filtersRef, pending)
  /\ last' = Before("mount", "", NoRequest)
  /\ UNCHANGED <<filters, filtersRef, users, rejected, emitted, replaced,
                 streak, defaultRun, sorted>>

\* A click on the header of a column.
handleSort(column) ==
  /\ mounted
  /\ replaced < MaxUpdates
  /\ emitted' = emitted + 1
  /\ onFilterChange(sortRequest(closure.sort, column))
  /\ last' = Before("handleSort", column, sortRequest(closure.sort, column))
  /\ streak' = IF streak.column = column /\ streak.n \in {1, 2}
                 THEN [column |-> column, n |-> streak.n + 1]
                 ELSE IF closure.sort \notin {Str(column), Str(Negated(column))}
                        THEN [column |-> column, n |-> 1]
                        ELSE [column |-> column, n |-> 0]
  /\ defaultRun' = IF column # "created_at" THEN FALSE ELSE defaultRun
  /\ sorted' = TRUE
  /\ UNCHANGED <<users, rejected, mounted>>

\* A selection in the status control.
handleStatusFilter(value) ==
  /\ mounted
  /\ replaced < MaxUpdates
  /\ emitted' = emitted + 1
  /\ onFilterChange(statusRequest(value))
  /\ last' = Before("handleStatusFilter", value, statusRequest(value))
  /\ streak' = [column |-> "", n |-> 0]
  /\ UNCHANGED <<users, rejected, mounted, defaultRun, sorted>>

\* The filter bar asks the store for a filter update of its own: a new search
\* text, or no field at all (the filters object is replaced by an equal one).
FilterBar(partial) ==
  /\ mounted
  /\ replaced < MaxUpdates
  /\ onFilterChange(partial)
  /\ last' = Before("filterBar", "", partial)
  /\ streak' = [column |-> "", n |-> 0]
  /\ UNCHANGED <<users, rejected, mounted, emitted, defaultRun, sorted>>

\* The store completes an outstanding refetch: `users` is replaced and the
\* component re-renders with the same filters object.
RefetchResolved(id) ==
  /\ id \in pending
  /\ users' = id
  /\ Render(filters, filtersRef, pending \ {id})
  /\ last' = Before("resolved", "", NoRequest)
  /\ UNCHANGED <<filters, filtersRef, rejected, mounted, emitted, replaced,
                 streak, defaultRun, sorted>>

\* The store gives up an outstanding refetch: `users` keeps its value.
RefetchRejected(id) ==
  /\ id \in pending
  /\ rejected' = rejected \cup {id}
  /\ Render(filters, filtersRef, pending \ {id})
  /\ last' = Before("rejected", "", NoRequest)
  /\ UNCHANGED <<filters, filtersRef, users, mounted, emitted, replaced,
                 streak, defaultRun, sorted>>

Next ==
  \/ Mount
  \/ \E column \in Columns : handleSort(column)
  \/ \E value \in Values : handleStatusFilter(value)
  \/ \E s \in Searches : FilterBar([search |-> Str(s)])
  \/ FilterBar(NoRequest)
  \/ \E id \in 1..(MaxUpdates + 2) : RefetchResolved(id)
  \/ \E id \in 1..(MaxUpdates + 2) : RefetchRejected(id)

Spec == Init /\ [][Next]_vars

----------------------------------------------------------------------------
(* Properties.                                                             *)

Handlers == {"handleSort", "handleStatusFilter"}

Replacements == {"handleSort", "handleStatusFilter", "filterBar"}

\* C1: handleStatusFilter("0") emits exactly one filter update whose status
\* is undefined: the status filter is cleared, not set to any string.
C1_SentinelClearsStatus ==
  (last.op = "handleStatusFilter" /\ last.arg = "0") =>
     /\ emitted = last.emitted + 1
     /\ last.request = [status |-> undefined]
     /\ filters.status = undefined

\* C2: handleSort(c) with current sort s emits the sort "-" + c when s = c,
\* "-created_at" when s = "-" + c, and c in every other case (s undefined
\* included).
C2_SortTransition ==
  last.op = "handleSort" =>
     LET s == last.filters.sort
         c == last.arg
     IN /\ emitted = last.emitted + 1
        /\ "sort" \in DOMAIN last.request
        /\ s = Str(c) => last.request.sort = Str("-" \o c)
        /\ s = Str("-" \o c) => last.request.sort = Str("-created_at")
        /\ s \notin {Str(c), Str("-" \o c)} => last.request.sort = Str(c)

C2_Witness ==
  /\ last.op = "handleSort"
  /\ last.arg = "username"
  /\ last.filters.sort = Str("-username")
  /\ filters.sort = Str("-created_at")

\* C3: handleStatusFilter("") emits a filter update with status undefined,
\* and handleStatusFilter(v) for a non-empty v other than "0" emits a filter
\* update with status v.
C3_StatusPassThrough ==
  (last.op = "handleStatusFilter" /\ last.arg # "0") =>
     /\ emitted = last.emitted + 1
     /\ "status" \in DOMAIN last.request
     /\ last.arg = "" => last.request.status = undefined
     /\ last.arg # "" => last.request.status = Str(last.arg)

C3_Witness ==
  /\ last.op = "handleStatusFilter"
  /\ last.arg = ""
  /\ last.filters.status = Str("active")
  /\ filters.status = undefined

\* C4: the component has made no refetchUsers call before it mounts, and
\* after mount and n replacements of the filters object (by an equal object
\* included) exactly 1 + n calls, whether earlier refetches succeeded or
\* failed.
C4_RefetchPerReplacement ==
  refetchCalls = IF mounted THEN 1 + replaced ELSE 0

C4_Witness ==
  /\ last.op \in Replacements
  /\ last.filters = filters
  /\ replaced >= 2
  /\ rejected # {}
  /\ users # 0
  /\ refetchCalls = 1 + replaced

\* C5: mounting issues exactly one refetchUsers call, before any filter
\* update or other state change, whatever the initial filters are.
C5_RefetchOnMount ==
  /\ ~mounted => refetchCalls = 0
  /\ last.op = "mount" =>
        /\ refetchCalls = 1
        /\ pending = {1}
        /\ emitted = 0
        /\ replaced = 0
        /\ filters = last.filters
        /\ users = last.users

C5_Witness ==
  /\ last.op = "mount"
  /\ filters = [sort |-> undefined, status |-> undefined, search |-> undefined]
  /\ refetchCalls = 1

\* C6, as stated: after any sequence of handleSort and handleStatusFilter
\* invocations filters.sort is a bare column name or a column name prefixed
\* with exactly one "-".
C6_SortFormAfterHandlers ==
  emitted > 0 => filters.sort \in SortForms

\* C6, amended: filters.sort is a bare column name or a column name prefixed
\* with exactly one "-" once handleSort has been invoked or if it started so;
\* it is undefined exactly as long as it started undefined and handleSort has
\* not been invoked; it is never doubly negated nor empty.
C6_SortFormPreserved ==
  /\ filters.sort \in SortForms \cup {undefined}
  /\ sorted => filters.sort \in SortForms
  /\ filters.sort = undefined => last.filters.sort = undefined

C6_Witness ==
  /\ last.op = "handleSort"
  /\ last.filters.sort = Str("-username")
  /\ last.arg = "username"
  /\ emitted >= 2
  /\ filters.sort \in SortForms

\* C7: from a sort that is neither c nor "-" + c, three consecutive
\* handleSort(c) invocations with no other filter update in between produce
\* the sorts c, "-" + c and "-created_at", in that order.
C7_ThreeStateCycle ==
  /\ streak.n = 1 => filters.sort = Str(streak.column)
  /\ streak.n = 2 => filters.sort = Str("-" \o streak.column)
  /\ streak.n = 3 => filters.sort = Str("-created_at")

C7_Witness ==
  /\ streak.n = 3
  /\ streak.column = "username"
  /\ last.filters.sort = Str("-username")

\* C8: a handleSort invocation emits exactly one filter update carrying only
\* the sort field, a handleStatusFilter invocation exactly one carrying only
\* the status field; the other fields of the filters and the users collection
\* are unchanged, and the only refetchUsers call is the one of the effect.
C8_HandlerFrame ==
  /\ last.op = "handleSort" =>
        /\ DOMAIN last.request = {"sort"}
        /\ filters.status = last.filters.status
  /\ last.op = "handleStatusFilter" =>
        /\ DOMAIN last.request = {"status"}
        /\ filters.sort = last.filters.sort
  /\ last.op \in Handlers =>
        /\ emitted = last.emitted + 1
        /\ filters.search = last.filters.search
        /\ users = last.users
        /\ refetchCalls = last.refetchCalls + 1

C8_Witness ==
  /\ last.op = "handleStatusFilter"
  /\ last.filters.sort = Str("-username")
  /\ last.filters.status # filters.status
  /\ filters.search # undefined

\* C9: a handler can run while earlier refetches are unresolved, and the
\* filter change it causes adds exactly one refetchUsers call to the
\* unresolved ones; the component never removes a call from them.
C9_NoSuppression ==
  /\ (mounted /\ replaced < MaxUpdates) =>
        \A column \in Columns : ENABLED handleSort(column)
  /\ last.op \in Replacements =>
        /\ refetchCalls = last.refetchCalls + 1
        /\ pending = last.pending \cup {refetchCalls}
        /\ refetchCalls \notin last.pending
  /\ last.op \notin {"resolved", "rejected"} => last.pending \subseteq pending

C9_Witness ==
  /\ last.op \in Handlers
  /\ Cardinality(last.pending) >= 2
  /\ Cardinality(pending) = Cardinality(last.pending) + 1

\* C10: with sort "-created_at", handleSort("created_at") emits sort
\* "-created_at" again; starting from that sort, filters.sort stays
\* "-created_at", and so never is "created_at", until another column is
\* sorted.
C10_DefaultFixedPoint ==
  /\ (last.op = "handleSort" /\ last.arg = "created_at"
        /\ last.filters.sort = Str("-created_at")) =>
        last.request = [sort |-> Str("-created_at")]
  /\ defaultRun => filters.sort = Str("-created_at")

C10_Witness ==
  /\ defaultRun
  /\ last.op = "handleSort"
  /\ last.arg = "created_at"
  /\ last.filters.sort = Str("-created_at")
  /\ streak.column = "created_at"
  /\ emitted >= 2

====
